---- MODULE Spec2Model ----
(***************************************************************************)
(* minigrad: scalar reverse-mode automatic differentiation (src/src/lib.rs) *)
(*                                                                         *)
(* A Scalar stores its value and its gradient as four integer fields each  *)
(* (sign, integral part, fractional digits, number of fractional digits);  *)
(* every read goes through join_f32 and every write through split_f32.     *)
(* Operators build new Scalars that refer to their operands; backward      *)
(* seeds the root with 1, orders the graph with parse_topology and calls   *)
(* derive on every node of that order.                                     *)
(*                                                                         *)
(* Numbers.  An f32 is modelled as a decimal floating value: a finite      *)
(* multiple of 1/Scale, +inf, -inf or NaN.  Every arithmetic operation     *)
(* rounds its exact result to the nearest representable value (ties to     *)
(* even), as IEEE-754 does.  The u32 fields are modelled with the maximum  *)
(* UMax, which stands for u32::MAX: TLC's integers end below 2^31.         *)
(***************************************************************************)
EXTENDS Integers, Sequences, FiniteSets, TLC

\* ------------------------------------------------------------------ bounds

\* The largest number of Scalars the program creates under Spec; SpecDeep
\* allows one more.
MaxNodes == 3

\* The largest number of calls the program makes under Spec: constructions of
\* a Scalar (Scalar::new, an operator) and calls of backward; SpecDeep allows
\* one more.
MaxCalls == 4

\* The largest value of the integer fields (u32::MAX in the source).
UMax == 255

\* The longest operand vector given to Scalar::new_full under SpecFull.
MaxOperands == 3

\* An f32 has Scale representable values per unit (two decimal digits).
Scale == 100

\* The f32 values given to Scalar::new, in units of 1/Scale: 0, 0.1, 3.
LeafValues == {0, 10, 300}

\* The labels given to Scalar::new.
Labels == {"s"}

\* The f32 values given to Scalar::new_full under SpecFull, in units of
\* 1/Scale: 3.
FullValues == {300}

\* ------------------------------------------------------------------ f32

Abs(n) == IF n < 0 THEN -n ELSE n

Sgn(n) == IF n < 0 THEN -1 ELSE 1

Min(a, b) == IF a < b THEN a ELSE b

\* p / q for p >= 0, q > 0, rounded to the nearest integer, ties to even.
RoundDiv(p, q) ==
    LET d == p \div q
        r == p % q
    IN  IF 2 * r > q THEN d + 1
        ELSE IF 2 * r < q THEN d
        ELSE IF d % 2 = 0 THEN d ELSE d + 1

Fin(v) == [k |-> "fin", v |-> v]

Inf(s) == [k |-> "inf", v |-> s]

NaN == [k |-> "nan", v |-> 0]

\* An f32 has no fractional part above 2^23; the model has none above UMax,
\* so a value with a fractional part always has an integral part that fits.
Rnd(v) ==
    IF Abs(v) >= (UMax + 1) * Scale
    THEN Fin(Sgn(v) * RoundDiv(Abs(v), Scale) * Scale)
    ELSE Fin(v)

\* The sign of an f32 that is not NaN (a zero counts as positive: the stored
\* zeros are +0.0, and the sign of a zero result is lost by split_f32).
FSign(x) == IF x.k = "inf" THEN x.v ELSE Sgn(x.v)

FIsZero(x) == x.k = "fin" /\ x.v = 0

\* x + y
FAdd(x, y) ==
    IF x.k = "nan" \/ y.k = "nan" THEN NaN
    ELSE IF x.k = "inf" /\ y.k = "inf" THEN (IF x.v = y.v THEN x ELSE NaN)
    ELSE IF x.k = "inf" THEN x
    ELSE IF y.k = "inf" THEN y
    ELSE Rnd(x.v + y.v)

\* -x
FNeg(x) == IF x.k = "nan" THEN NaN ELSE [k |-> x.k, v |-> -x.v]

\* x - y
FSub(x, y) == FAdd(x, FNeg(y))

\* x * y
FMul(x, y) ==
    IF x.k = "nan" \/ y.k = "nan" THEN NaN
    ELSE IF x.k = "inf" \/ y.k = "inf"
         THEN (IF FIsZero(x) \/ FIsZero(y) THEN NaN ELSE Inf(FSign(x) * FSign(y)))
    ELSE Rnd(Sgn(x.v) * Sgn(y.v) * RoundDiv(Abs(x.v) * Abs(y.v), Scale))

\* x / y
FDiv(x, y) ==
    IF x.k = "nan" \/ y.k = "nan" THEN NaN
    ELSE IF x.k = "inf" /\ y.k = "inf" THEN NaN
    ELSE IF x.k = "inf" THEN Inf(FSign(x) * FSign(y))
    ELSE IF y.k = "inf" THEN Fin(0)
    ELSE IF y.v = 0 THEN (IF x.v = 0 THEN NaN ELSE Inf(Sgn(x.v)))
    ELSE Rnd(Sgn(x.v) * Sgn(y.v) * RoundDiv(Abs(x.v) * Scale, Abs(y.v)))

\* x.powi(2)
FPowi2(x) == FMul(x, x)

\* ------------------------------------------------------------------ Scalar

Log10(n) == IF n < 10 THEN 0 ELSE IF n < 100 THEN 1 ELSE IF n < 1000 THEN 2 ELSE 3

Pow10(n) == IF n = 0 THEN 1 ELSE IF n = 1 THEN 10 ELSE IF n = 2 THEN 100 ELSE 1000

\* The digits after the decimal point of the shortest decimal string of a
\* value: f counts units of 10^-d; trailing zeros are not printed.
RECURSIVE FracString(_, _)
FracString(f, d) ==
    IF d > 1 /\ f % 10 = 0 THEN FracString(f \div 10, d - 1)
    ELSE [frac |-> f, len |-> d]

\* split_f32(x): (sign, int, frac, n_digits), or a panic (ok = FALSE).
\*   - a whole number (x == x.floor(), true of both infinities): the cast
\*     `x.abs() as u32` saturates;
\*   - otherwise the decimal string of x is cut at the point and both halves
\*     are parsed as u32; "NaN" does not parse, nor does a half above u32::MAX.
split_f32(x) ==
    LET sign == IF x.k # "nan" /\ FSign(x) < 0 THEN -1 ELSE 1
    IN  IF x.k = "nan"
        THEN [ok |-> FALSE, sign |-> sign, int |-> 0, frac |-> 0, digits |-> 0]
        ELSE IF x.k = "inf"
        THEN [ok |-> TRUE, sign |-> sign, int |-> UMax, frac |-> 0, digits |-> 1]
        ELSE IF x.v % Scale = 0
        THEN [ok |-> TRUE, sign |-> sign, int |-> Min(Abs(x.v) \div Scale, UMax),
              frac |-> 0, digits |-> 1]
        ELSE LET s == FracString(Abs(x.v) % Scale, Log10(Scale))
                 int == Abs(x.v) \div Scale
             IN  [ok |-> int <= UMax /\ s.frac <= UMax, sign |-> sign, int |-> int,
                  frac |-> s.frac, digits |-> s.len]

\* join_f32: sign * (int + frac / 10^n_digits)
join_f32(sign, int, frac, n_digits) ==
    FMul(Fin(sign * Scale),
         FAdd(Fin(int * Scale), FDiv(Fin(frac * Scale), Fin(Pow10(n_digits) * Scale))))

join_data(s) == join_f32(s.data_sign, s.data_int, s.data_frac, s.data_digits)

join_grad(s) == join_f32(s._grad_sign, s._grad_int, s._grad_frac, s._grad_digits)

\* Scalar::new(data, label), with e == split_f32(data).  The gradient fields
\* are written directly: (1, 0, 0, 0).
new(e, label) ==
    [data_sign |-> e.sign, data_int |-> e.int, data_frac |-> e.frac,
     data_digits |-> e.digits, _children |-> << >>,
     _grad_sign |-> 1, _grad_int |-> 0, _grad_frac |-> 0, _grad_digits |-> 0,
     _op |-> "Base", _label |-> label]

\* Scalar::new_full(data, _ch, _grad, _op, label), with e == split_f32(data)
\* and g == split_f32(_grad).
new_full(e, ch, g, op, label) ==
    [data_sign |-> e.sign, data_int |-> e.int, data_frac |-> e.frac,
     data_digits |-> e.digits, _children |-> ch,
     _grad_sign |-> g.sign, _grad_int |-> g.int, _grad_frac |-> g.frac,
     _grad_digits |-> g.digits,
     _op |-> op, _label |-> label]

\* update_grad with the fields confused: it writes the value of the Scalar
\* where it should write the gradient.
update_grad_into_data(h, i, new_grad) ==
    LET e == split_f32(new_grad)
    IN  [h EXCEPT ![i].data_sign = e.sign, ![i].data_int = e.int,
                  ![i].data_frac = e.frac, ![i].data_digits = e.digits]

\* update_grad(&self, new_grad), self being the Scalar at address i of heap h.
\* The caller sees the panic of split_f32 (split_f32(new_grad).ok = FALSE).
update_grad(h, i, new_grad) ==
    LET e == split_f32(new_grad)
    IN  [h EXCEPT ![i]._grad_sign = e.sign, ![i]._grad_int = e.int,
                  ![i]._grad_frac = e.frac, ![i]._grad_digits = e.digits]

\* The two values derive writes, in the order it writes them: the gradient of
\* _children[0], then the gradient of _children[1].  Both old gradients are
\* read before the first write.
derive_grads(h, n) ==
    LET self == h[n]
        _parent_grad == join_grad(self)
        orig_grad0 == join_grad(h[self._children[1]])
        orig_grad1 == join_grad(h[self._children[2]])
        orig_data0 == join_data(h[self._children[1]])
        orig_data1 == join_data(h[self._children[2]])
    IN  CASE self._op = "Add" ->
               << FAdd(orig_grad0, _parent_grad), FAdd(orig_grad1, _parent_grad) >>
          [] self._op = "Sub" ->
               << FAdd(orig_grad0, _parent_grad),
                  FAdd(orig_grad1, FMul(_parent_grad, Fin(-Scale))) >>
          [] self._op = "Mul" ->
               << FAdd(orig_grad0, FMul(_parent_grad, orig_data1)),
                  FAdd(orig_grad1, FMul(_parent_grad, orig_data0)) >>
          [] self._op = "Div" ->
               << FAdd(orig_grad0, FDiv(FMul(_parent_grad, Fin(Scale)), orig_data1)),
                  FSub(orig_grad1,
                       FDiv(FMul(_parent_grad, orig_data0), FPowi2(orig_data1))) >>

\* derive(&mut self) on the Scalar at address n: the heap it leaves, and whether
\* it returned (ok) or panicked.  A Scalar without children returns at once; a
\* Scalar with one child panics at _children[1]; the Base operation writes
\* nothing; a panic of the second update_grad leaves the first write in place.
derive(h, n) ==
    LET self == h[n]
    IN  IF Len(self._children) = 0 THEN [ok |-> TRUE, heap |-> h]
        ELSE IF Len(self._children) = 1 THEN [ok |-> FALSE, heap |-> h]
        ELSE IF self._op = "Base" THEN [ok |-> TRUE, heap |-> h]
        ELSE LET g == derive_grads(h, n)
                 h0 == update_grad(h, self._children[1], g[1])
                 h1 == update_grad(h0, self._children[2], g[2])
             IN  IF ~split_f32(g[1]).ok THEN [ok |-> FALSE, heap |-> h]
                 ELSE IF ~split_f32(g[2]).ok THEN [ok |-> FALSE, heap |-> h0]
                 ELSE [ok |-> TRUE, heap |-> h1]

\* The derived PartialEq of Scalar, on the Scalars at addresses i and j: every
\* field but _label is compared, the children (references) by the Scalars they
\* refer to, the gradient cells by their contents.
RECURSIVE ScalarEq(_, _, _)
ScalarEq(h, i, j) ==
    /\ h[i].data_sign = h[j].data_sign
    /\ h[i].data_int = h[j].data_int
    /\ h[i].data_frac = h[j].data_frac
    /\ h[i].data_digits = h[j].data_digits
    /\ Len(h[i]._children) = Len(h[j]._children)
    /\ \A k \in 1..Len(h[i]._children) :
          ScalarEq(h, h[i]._children[k], h[j]._children[k])
    /\ h[i]._grad_sign = h[j]._grad_sign
    /\ h[i]._grad_int = h[j]._grad_int
    /\ h[i]._grad_frac = h[j]._grad_frac
    /\ h[i]._grad_digits = h[j]._grad_digits
    /\ h[i]._op = h[j]._op

\* visited.contains(&n)
Contains(h, visited, n) == \E k \in 1..Len(visited) : ScalarEq(h, visited[k], n)

\* The for loop of parse_topology over the children ch of curr_level[0], from
\* child k on; t is the record of the three vectors.
RECURSIVE parse_children(_, _, _, _)
parse_children(h, ch, k, t) ==
    IF k > Len(ch) THEN t
    ELSE IF ~Contains(h, t.visited, ch[k])
    THEN parse_children(h, ch, k + 1,
             [visited |-> Append(t.visited, ch[k]),
              curr_level |-> Append(t.curr_level, ch[k]),
              topology |-> Append(t.topology, ch[k])])
    ELSE parse_children(h, ch, k + 1, t)

\* The while loop of parse_topology.
RECURSIVE parse_loop(_, _)
parse_loop(h, t) ==
    IF Len(t.curr_level) = 0 THEN t.topology
    ELSE LET u == parse_children(h, h[t.curr_level[1]]._children, 1, t)
         IN  parse_loop(h, [u EXCEPT !.curr_level = Tail(u.curr_level)])

\* parse_topology(node)
parse_topology(h, node) ==
    parse_loop(h, [topology |-> << node >>, curr_level |-> << node >>,
                   visited |-> << >>])

\* ------------------------------------------------------------------ state

VARIABLES
    heap,       \* the Scalars created so far; a reference is an index into heap
    pc,         \* "idle", "backward" (inside the for loop of backward), "panicked"
    root,       \* the Scalar backward was called on (0 before the first call)
    topology,   \* the vector parse_topology returned to backward
    pos,        \* the position of the for loop of backward in topology
    dead,       \* the Scalars no longer usable: they borrow a Scalar that was
                \* since borrowed mutably by backward(&mut self)
    log,        \* history: per backward call its root and every gradient
                \* before the call and after it
    budget      \* the bounds of this run: [nodes, calls]

vars == << heap, pc, root, topology, pos, dead, log, budget >>

Ops == {"Add", "Sub", "Mul", "Div"}

\* The forward value of `lhs op rhs`.
Forward(op, x, y) ==
    CASE op = "Add" -> FAdd(x, y)
      [] op = "Sub" -> FSub(x, y)
      [] op = "Mul" -> FMul(x, y)
      [] op = "Div" -> FDiv(x, y)

\* The Scalars reachable from n along _children, n included.
RECURSIVE Reach(_, _)
Reach(h, n) ==
    {n} \cup UNION {Reach(h, h[n]._children[k]) : k \in 1..Len(h[n]._children)}

\* The Scalars that hold a (direct or indirect) reference to n.
Borrowers(h, n) == {m \in 1..Len(h) : m # n /\ n \in Reach(h, m)}

\* join_grad of every Scalar.
Grads(h) == [i \in 1..Len(h) |-> join_grad(h[i])]

\* The calls made so far.
Calls == Len(heap) + Len(log)

Init ==
    /\ heap = << >>
    /\ pc = "idle"
    /\ root = 0
    /\ topology = << >>
    /\ pos = 0
    /\ dead = {}
    /\ log = << >>
    /\ budget = [nodes |-> MaxNodes, calls |-> MaxCalls]

\* The initial state of SpecDeep: the same program, one more Scalar and call.
InitDeep ==
    /\ heap = << >>
    /\ pc = "idle"
    /\ root = 0
    /\ topology = << >>
    /\ pos = 0
    /\ dead = {}
    /\ log = << >>
    /\ budget = [nodes |-> MaxNodes + 1, calls |-> MaxCalls + 1]

\* let s = Scalar::new(data, label);
NewLeaf(data, label) ==
    /\ pc = "idle"
    /\ Calls < budget.calls
    /\ Len(heap) < budget.nodes
    /\ LET e == split_f32(Fin(data))
       IN  IF e.ok
           THEN heap' = Append(heap, new(e, label)) /\ pc' = pc
           ELSE heap' = heap /\ pc' = "panicked"
    /\ UNCHANGED << root, topology, pos, dead, log, budget >>

\* let s = &heap[a] op &heap[b];   (ops::Add, Sub, Mul, Div for &Scalar)
ApplyOp(op, a, b) ==
    /\ pc = "idle"
    /\ Calls < budget.calls
    /\ Len(heap) < budget.nodes
    /\ a \in 1..Len(heap) \ dead
    /\ b \in 1..Len(heap) \ dead
    /\ LET e == split_f32(Forward(op, join_data(heap[a]), join_data(heap[b])))
           g == split_f32(Fin(0))
       IN  IF e.ok
           THEN heap' = Append(heap, new_full(e, << a, b >>, g, op, "")) /\ pc' = pc
           ELSE heap' = heap /\ pc' = "panicked"
    /\ UNCHANGED << root, topology, pos, dead, log, budget >>

\* heap[r].backward(), up to the for loop: update_grad(1.0), parse_topology.
BackwardStart(r) ==
    /\ pc = "idle"
    /\ Calls < budget.calls
    /\ r \in 1..Len(heap) \ dead
    /\ LET h == update_grad(heap, r, Fin(Scale))
       IN  /\ heap' = h
           /\ topology' = parse_topology(h, r)
    /\ root' = r
    /\ pos' = 1
    /\ pc' = "backward"
    /\ dead' = dead \cup Borrowers(heap, r)
    /\ log' = Append(log, [root |-> r, pre |-> Grads(heap), post |-> << >>])
    /\ UNCHANGED budget

\* One iteration of the for loop of backward: node.clone().derive().
BackwardStep ==
    /\ pc = "backward"
    /\ LET d == derive(heap, topology[pos])
       IN  /\ heap' = d.heap
           /\ IF ~d.ok
              THEN pc' = "panicked" /\ pos' = pos /\ log' = log
              ELSE IF pos < Len(topology)
              THEN pc' = "backward" /\ pos' = pos + 1 /\ log' = log
              ELSE /\ pc' = "idle"
                   /\ pos' = 0
                   /\ log' = [log EXCEPT ![Len(log)].post = Grads(d.heap)]
    /\ UNCHANGED << root, topology, dead, budget >>

Next ==
    \/ \E data \in LeafValues, label \in Labels : NewLeaf(data, label)
    \/ \E op \in Ops, a \in 1..Len(heap), b \in 1..Len(heap) : ApplyOp(op, a, b)
    \/ \E r \in 1..Len(heap) : BackwardStart(r)
    \/ BackwardStep

Spec == Init /\ [][Next]_vars

SpecDeep == InitDeep /\ [][Next]_vars

\* The operation tags of the enum Operation.
Tags == Ops \cup {"Base"}

\* The operand vectors Scalar::new_full can be given: any number of
\* references, up to MaxOperands, to Scalars that are still usable.
OperandVecs ==
    UNION {[1..m -> 1..Len(heap) \ dead] : m \in 0..MaxOperands}

\* The initial state of SpecFull: the program of Spec, which also calls
\* Scalar::new_full directly, as the tests of the crate do.
InitFull ==
    /\ heap = << >>
    /\ pc = "idle"
    /\ root = 0
    /\ topology = << >>
    /\ pos = 0
    /\ dead = {}
    /\ log = << >>
    /\ budget = [nodes |-> MaxNodes, calls |-> MaxCalls]

\* let s = Scalar::new_full(data, _ch, 0.0, _op, label);
\* Nothing in new_full compares the length of _ch with the operation tag.
NewFull(data, _ch, _op, label) ==
    /\ pc = "idle"
    /\ Calls < budget.calls
    /\ Len(heap) < budget.nodes
    /\ LET e == split_f32(Fin(data))
           g == split_f32(Fin(0))
       IN  IF e.ok /\ g.ok
           THEN heap' = Append(heap, new_full(e, _ch, g, _op, label)) /\ pc' = pc
           ELSE heap' = heap /\ pc' = "panicked"
    /\ UNCHANGED << root, topology, pos, dead, log, budget >>

NextFull ==
    \/ \E data \in LeafValues, label \in Labels : NewLeaf(data, label)
    \/ \E op \in Ops, a \in 1..Len(heap), b \in 1..Len(heap) : ApplyOp(op, a, b)
    \/ \E r \in 1..Len(heap) : BackwardStart(r)
    \/ BackwardStep
    \/ \E data \in FullValues, _ch \in OperandVecs, _op \in Tags, label \in Labels :
           NewFull(data, _ch, _op, label)

SpecFull == InitFull /\ [][NextFull]_vars

\* ------------------------------------------------------------------ claims

\* The read accessors of the interface.
value_of(i) == join_data(heap[i])

gradient_of(i) == join_grad(heap[i])

Zero == Fin(0)

One == Fin(Scale)

IsLeaf(i) == Len(heap[i]._children) = 0

\* The backward calls that returned.
Returned == {k \in 1..Len(log) : log[k].post # << >>}

\* Every gradient was 0 when backward call k began.
FromZero(k) == \A i \in 1..Len(log[k].pre) : log[k].pre[i] = Zero

\* Every Scalar reachable from r is a leaf or the result of an add or a sub:
\* on such a graph every gradient is a small whole number and the arithmetic
\* of the model (and of f32) is exact.
AddSubOnly(r) == \A n \in Reach(heap, r) : heap[n]._op \in {"Base", "Add", "Sub"}

\* The local derivative of Scalar m with respect to its operand at position p.
Local(m, p) ==
    LET a == value_of(heap[m]._children[1])
        b == value_of(heap[m]._children[2])
    IN  CASE heap[m]._op = "Add" -> One
          [] heap[m]._op = "Sub" -> IF p = 1 THEN One ELSE FNeg(One)
          [] heap[m]._op = "Mul" -> IF p = 1 THEN b ELSE a
          [] heap[m]._op = "Div" ->
               IF p = 1 THEN FDiv(One, b) ELSE FNeg(FDiv(a, FPowi2(b)))

\* The partial derivative of r with respect to n: 1 for r itself, otherwise
\* the sum over the operand edges (m, p) into n, m reachable from r, of the
\* partial derivative of r with respect to m times the local derivative.
\* PartialUpTo adds the edges from the Scalars at addresses n + 1 .. m.
RECURSIVE Partial(_, _), PartialUpTo(_, _, _)
Partial(r, n) == IF n = r THEN One ELSE PartialUpTo(r, n, r)

PartialUpTo(r, n, m) ==
    IF m <= n THEN Zero
    ELSE LET edge(p) ==
                 IF m \in Reach(heap, r) /\ Len(heap[m]._children) >= p
                    /\ heap[m]._children[p] = n
                 THEN FMul(Partial(r, m), Local(m, p))
                 ELSE Zero
         IN  FAdd(PartialUpTo(r, n, m - 1), FAdd(edge(1), edge(2)))

\* C1 (as the claim states it, on the graphs built with add and sub): after a
\* backward(root) that began with every gradient 0, the gradient of every
\* Scalar reachable from root is the partial derivative of root with respect
\* to it.
C1_GradientIsPartial ==
    \A k \in Returned :
        (k = Len(log) /\ pc = "idle" /\ FromZero(k) /\ AddSubOnly(log[k].root)) =>
            \A n \in Reach(heap, log[k].root) :
                log[k].post[n] = Partial(log[k].root, n)

\* C2 (as the claim states it): for distinct leaves a, b with gradient 0 and
\* c = op(a, b), after backward(c) the gradient of c is 1 and the gradients of
\* a and b are (1, 1) for add, (1, -1) for sub, (value_of(b), value_of(a)) for
\* mul, (1 / value_of(b), -value_of(a) / value_of(b)^2) for div, value_of(b) # 0.
C2_LeafOperandGradients ==
    \A k \in Returned :
        LET c == log[k].root
            a == heap[c]._children[1]
            b == heap[c]._children[2]
        IN  ( /\ heap[c]._op \in Ops
              /\ Len(heap[c]._children) = 2
              /\ a # b /\ IsLeaf(a) /\ IsLeaf(b)
              /\ log[k].pre[a] = Zero /\ log[k].pre[b] = Zero
              /\ (heap[c]._op = "Div" => ~FIsZero(value_of(b))) ) =>
            /\ log[k].post[c] = One
            /\ log[k].post[a] = Local(c, 1)
            /\ log[k].post[b] = Local(c, 2)

\* C3 (as the claim states it, on the graphs built with add and sub): two
\* backward calls on the same root, one after the other, the first beginning
\* with every gradient 0, leave every Scalar reachable from the root below it
\* with twice the gradient it had after the first call.
C3_TwiceDoubles ==
    \A k \in Returned :
        ( /\ k + 1 \in Returned
          /\ log[k + 1].root = log[k].root
          /\ FromZero(k)
          /\ AddSubOnly(log[k].root) ) =>
            \A n \in Reach(heap, log[k].root) \ {log[k].root} :
                log[k + 1].post[n] = FAdd(log[k].post[n], log[k].post[n])

\* C4 (as the claim states it): an operator applied to a and b returns a new
\* Scalar whose value is the operation applied to value_of(a) and value_of(b),
\* whose operands are [a, b], whose gradient is 0, and no existing Scalar
\* changes.
C4_OperatorResult ==
    [][ (pc = "idle" /\ pc' = "idle" /\ Len(heap') = Len(heap) + 1
         /\ heap'[Len(heap')]._op \in Ops) =>
          LET n == heap'[Len(heap')]
          IN  /\ Len(n._children) = 2
              /\ n._children[1] \in 1..Len(heap)
              /\ n._children[2] \in 1..Len(heap)
              /\ join_data(n) = Forward(n._op, value_of(n._children[1]),
                                        value_of(n._children[2]))
              /\ join_grad(n) = Zero
              /\ SubSeq(heap', 1, Len(heap)) = heap ]_vars

\* The equality the claim describes: the same value, the same operation tag
\* and operand lists that are equal in the same sense.
RECURSIVE ClaimedEq(_, _)
ClaimedEq(i, j) ==
    /\ value_of(i) = value_of(j)
    /\ heap[i]._op = heap[j]._op
    /\ Len(heap[i]._children) = Len(heap[j]._children)
    /\ \A k \in 1..Len(heap[i]._children) :
          ClaimedEq(heap[i]._children[k], heap[j]._children[k])

\* C5 (as the claim states it): two Scalars compare equal exactly when they
\* have the same value, equal operand lists and the same operation tag, in
\* every reachable state.
C5_EqualityFields ==
    \A i, j \in 1..Len(heap) : ScalarEq(heap, i, j) <=> ClaimedEq(i, j)

\* C6: no step changes the value, the operand list or the operation tag of an
\* existing Scalar, and a gradient changes only inside a backward call, and
\* then only that of the root or of a Scalar reachable from the root.
C6_OnlyReachableGradientsChange ==
    [][ \A i \in 1..Len(heap) :
          /\ i <= Len(heap')
          /\ heap'[i].data_sign = heap[i].data_sign
          /\ heap'[i].data_int = heap[i].data_int
          /\ heap'[i].data_frac = heap[i].data_frac
          /\ heap'[i].data_digits = heap[i].data_digits
          /\ heap'[i]._children = heap[i]._children
          /\ heap'[i]._op = heap[i]._op
          /\ (heap'[i] # heap[i]) =>
                /\ pc = "backward" \/ pc' = "backward"
                /\ i \in Reach(heap, root') ]_vars

\* C6, reached: a backward call has returned after changing the gradient of a
\* Scalar below its root, and a Scalar outside the graph of the root exists.
C6_Witness ==
    /\ pc = "idle"
    /\ Returned # {}
    /\ \E i \in Reach(heap, root) \ {root} : gradient_of(i) # Zero
    /\ \E j \in 1..Len(heap) : j \notin Reach(heap, root)

\* C7 (as the claim states it): no call panics, and the result of a division
\* by a Scalar whose value is 0 has an infinite or NaN value.
C7_DivisionByZeroIsNoError ==
    /\ pc # "panicked"
    /\ \A i \in 1..Len(heap) :
          (heap[i]._op = "Div" /\ FIsZero(value_of(heap[i]._children[2]))) =>
              value_of(i).k # "fin"

\* The contribution of Scalar n to its operand at position p, as derive
\* computes it from the gradient of n.
Contribution(n, p) ==
    LET g == gradient_of(n)
        a == value_of(heap[n]._children[1])
        b == value_of(heap[n]._children[2])
    IN  CASE heap[n]._op = "Add" -> g
          [] heap[n]._op = "Sub" -> IF p = 1 THEN g ELSE FMul(g, FNeg(One))
          [] heap[n]._op = "Mul" -> IF p = 1 THEN FMul(g, b) ELSE FMul(g, a)
          [] heap[n]._op = "Div" ->
               IF p = 1 THEN FDiv(FMul(g, One), b)
               ELSE FNeg(FDiv(FMul(g, a), FPowi2(b)))

\* C8 (as the claim states it, on the graphs built with add and sub): when
\* derive is applied to a Scalar with operands, the gradient of each operand
\* grows by the contributions of the positions it occupies.
C8_ContributionsAdded ==
    [][ (pc = "backward" /\ pc' # "panicked" /\ heap[topology[pos]]._op \in Ops
         /\ AddSubOnly(root)) =>
          LET n == topology[pos]
              c0 == heap[n]._children[1]
              c1 == heap[n]._children[2]
          IN  IF c0 = c1
              THEN join_grad(heap'[c0]) =
                     FAdd(FAdd(gradient_of(c0), Contribution(n, 1)), Contribution(n, 2))
              ELSE /\ join_grad(heap'[c0]) = FAdd(gradient_of(c0), Contribution(n, 1))
                   /\ join_grad(heap'[c1]) = FAdd(gradient_of(c1), Contribution(n, 2))
      ]_vars

\* The Scalars derive has been applied to in the running backward call.
Derived == {topology[k] : k \in 1..(pos - 1)}

\* C9 (as the claim states it, for the Scalars that have operands to push a
\* gradient to): when derive is about to be applied to a Scalar n, it has been
\* applied to every Scalar reachable from the root that has n as an operand.
C9_ConsumersFirst ==
    (pc = "backward" /\ ~IsLeaf(topology[pos])) =>
        \A m \in Reach(heap, root) :
            (\E p \in 1..Len(heap[m]._children) : heap[m]._children[p] = topology[pos])
                => m \in Derived

\* C10 (as the claim states it): the sequence parse_topology returns holds the
\* root and every Scalar reachable from it, each once, and nothing else.
C10_TopologyIsReachable ==
    root # 0 =>
        /\ {topology[k] : k \in 1..Len(topology)} = Reach(heap, root)
        /\ \A j, k \in 1..Len(topology) : topology[j] = topology[k] => j = k

\* The number of operands the operation tag of Scalar i stands for.
Arity(i) == IF heap[i]._op = "Base" THEN 0 ELSE 2

\* The operand count of Scalar i does not match the arity of its tag.
Mismatched(i) == Len(heap[i]._children) # Arity(i)

\* C11 (as the claim states it): no backward call returns on a graph that
\* holds a Scalar whose operand count does not match the arity of its
\* operation tag; such a call panics.
C11_MismatchedArityPanics ==
    \A k \in Returned :
        \A n \in Reach(heap, log[k].root) : ~Mismatched(n)

====
